---- MODULE Spec2Model ----
(***************************************************************************)
(* The Ghostfolio API client (src/ghostfolio/__init__.py): the cached JWT  *)
(* credential, the three HTTP verbs, the response processing and the       *)
(* resource methods built on them.                                         *)
(*                                                                         *)
(* Python values are modelled as follows.  Optional[T] is a sequence of    *)
(* length at most one: <<>> is None and <<x>> is the value x.  A str is a  *)
(* TLA+ string.  A dict is the set of its <<key, value>> items.  A URL is  *)
(* the sequence of its path segments.  The clock counts days.              *)
(***************************************************************************)
EXTENDS Integers, Sequences, FiniteSets, TLC

VARIABLES
    now,               \* datetime.now(), in days
    jwt_token,         \* self._jwt_token: Optional[str]
    jwt_token_expiry,  \* self._jwt_token_expiry: Optional[day]
    threads,           \* the threads that use the client instance
    pc,                \* per thread: the position inside the running call
    call,              \* per thread: the running call and the request it shapes
    sent,              \* per thread: the HTTP requests the running call has issued, in order
    resp,              \* per thread: the last HTTP response the running call received
    logged,            \* per thread: what the running call passed to logging.error, in order
    issued,            \* per thread: the authToken the running call's exchange obtained
    outcome,           \* per thread: how the running call ended
    start              \* per thread: the cached credential as the running call found it

vars == <<now, jwt_token, jwt_token_expiry, threads, pc, call, sent, resp, logged,
          issued, outcome, start>>

-----------------------------------------------------------------------------
(* Bounds and program constants *)

MaxTime == 45
TickDays == 15
TokenLifetimeDays == 30

AllThreads == {"T1", "T2"}

None == <<>>
Some(x) == <<x>>

\* Python truthiness of an Optional[str]: None and "" are falsy.
Truthy(opt) == opt # None /\ opt[1] # ""

\* ClientConfig, fixed at construction.
Host == "https://ghostfol.io/"
AccessToken == "access-token"
VerifySsl == TRUE

-----------------------------------------------------------------------------
(* The remote side: what the transport may answer *)

AuthOkTexts == {"{authToken:jwt1}", "{authToken:jwt2,ttl:1}"}
ResourceOkTexts == {"{}", "{activities:a1}"}
ErrorTexts == {"{message:Forbidden}"}

OkStatuses == {200}
ErrorStatuses == {403, 500}

AuthResponses ==
    [status : OkStatuses, text : AuthOkTexts] \cup [status : ErrorStatuses, text : ErrorTexts]

ResourceResponses ==
    [status : OkStatuses, text : ResourceOkTexts] \cup [status : ErrorStatuses, text : ErrorTexts]

NoResponse == [status |-> 0, text |-> ""]

\* requests.Response.json(): the body text decoded to a dict.
JsonLoads(text) ==
    CASE text = "{}" -> {}
      [] text = "{activities:a1}" -> {<<"activities", "a1">>}
      [] text = "{message:Forbidden}" -> {<<"message", "Forbidden">>}
      [] text = "{authToken:jwt1}" -> {<<"authToken", "jwt1">>}
      [] text = "{authToken:jwt2,ttl:1}" -> {<<"authToken", "jwt2">>, <<"ttl", "1">>}

\* d[key] on a dict.
DictGet(d, key) == (CHOOSE item \in d : item[1] = key)[2]

\* requests.Response.raise_for_status() raises HTTPError on 4xx and 5xx.
RaisesForStatus(status) == 400 <= status /\ status < 600

-----------------------------------------------------------------------------
(* Pure functions of the client *)

\* Ghostfolio._url
Url(endpoint, object_id, api_version) ==
    <<Host, "api", api_version>> \o endpoint
        \o (IF Truthy(object_id) THEN <<object_id[1]>> ELSE <<>>)

AuthUrl == <<Host, "api", "v1", "auth", "anonymous">>

\* _process_response without the logging.error call.
ProcessResponseSilent(r) ==
    IF RaisesForStatus(r.status)
    THEN [raised |-> TRUE, log |-> <<>>, value |-> {}]
    ELSE [raised |-> FALSE, log |-> <<>>, value |-> JsonLoads(r.text)]

\* Ghostfolio._process_response: the error logged (if any), whether HTTPError
\* is raised, and the decoded value returned otherwise.
ProcessResponse(r) ==
    IF RaisesForStatus(r.status)
    THEN [raised |-> TRUE, log |-> <<r.text>>, value |-> {}]
    ELSE [raised |-> FALSE, log |-> <<>>, value |-> JsonLoads(r.text)]

\* The test without its `is not None` conjunct.
HasTokenOmitted(tok) == TRUE

\* The first conjunct of the test in _refresh_jwt_token.
HasToken(tok) == tok # None

\* The second conjunct of the test in _refresh_jwt_token, on a present expiry.
ExpiryCheck(expiry, clock) == expiry < clock

\* The request of the credential exchange.
AuthRequest ==
    [verb |-> "POST", url |-> AuthUrl, auth |-> None, params |-> None,
     data |-> Some({<<"accessToken", AccessToken>>}), json |-> None,
     verify |-> VerifySsl]

\* The request get/post/put build for call c with the bearer token tok.
ResourceRequest(c, tok) ==
    [verb |-> c.verb, url |-> Url(c.endpoint, c.object_id, c.api_version),
     auth |-> tok, params |-> c.params, data |-> None, json |-> c.json,
     verify |-> VerifySsl]

IsAuth(req) == req.url = AuthUrl /\ req.auth = None
IsResource(req) == ~IsAuth(req)

\* Every method calling its verb without `return`, as import_transactions does.
ReturnValueDiscarded(method, value) == None

\* What the method hands back from the verb's return value.
ReturnValue(method, value) ==
    IF method = "import_transactions" THEN None ELSE Some(value)

\* How a cached credential stands against the clock.
Standing(tok, expiry, clock) ==
    IF tok = None \/ expiry = None THEN "absent"
    ELSE IF expiry[1] > clock THEN "valid"
    ELSE IF expiry[1] < clock THEN "expired"
    ELSE "boundary"

-----------------------------------------------------------------------------
(* State *)

NoCall ==
    [method |-> "", verb |-> "", endpoint |-> <<>>, object_id |-> None,
     api_version |-> "", params |-> None, json |-> None, account_id |-> None,
     data |-> None]

NoOutcome == [kind |-> "none", value |-> None, exc |-> ""]
NoStart == [cred |-> "none", token |-> None, expiry |-> None]

Init ==
    /\ now = 0
    /\ jwt_token = None
    /\ jwt_token_expiry = None
    /\ threads = {"T1"}
    /\ pc = [t \in AllThreads |-> "idle"]
    /\ call = [t \in AllThreads |-> NoCall]
    /\ sent = [t \in AllThreads |-> <<>>]
    /\ resp = [t \in AllThreads |-> NoResponse]
    /\ logged = [t \in AllThreads |-> <<>>]
    /\ issued = [t \in AllThreads |-> None]
    /\ outcome = [t \in AllThreads |-> NoOutcome]
    /\ start = [t \in AllThreads |-> NoStart]

InitMT ==
    /\ now = 0
    /\ jwt_token = None
    /\ jwt_token_expiry = None
    /\ threads = AllThreads
    /\ pc = [t \in AllThreads |-> "idle"]
    /\ call = [t \in AllThreads |-> NoCall]
    /\ sent = [t \in AllThreads |-> <<>>]
    /\ resp = [t \in AllThreads |-> NoResponse]
    /\ logged = [t \in AllThreads |-> <<>>]
    /\ issued = [t \in AllThreads |-> None]
    /\ outcome = [t \in AllThreads |-> NoOutcome]
    /\ start = [t \in AllThreads |-> NoStart]

-----------------------------------------------------------------------------
(* Entering a call *)

Begin(t, c) ==
    /\ t \in threads
    /\ pc[t] = "idle"
    /\ pc' = [pc EXCEPT ![t] = "check_token"]
    /\ call' = [call EXCEPT ![t] = c]
    /\ start' = [start EXCEPT ![t] =
                    [cred |-> Standing(jwt_token, jwt_token_expiry, now),
                     token |-> jwt_token, expiry |-> jwt_token_expiry]]
    /\ UNCHANGED <<now, jwt_token, jwt_token_expiry, threads, sent, resp, logged,
                   issued, outcome>>

ParamValues == {None, Some({<<"range", "max">>})}
AccountIds == {None, Some(""), Some("A1")}
DateRanges == {"max", "1y"}
GroupBys == {"month"}
ImportData == {{}, {<<"activities", "a1">>}}

\* The call a get(endpoint, params, api_version) is.
GetCall(endpoint, params, api_version) ==
    [method |-> "get", verb |-> "GET", endpoint |-> endpoint, object_id |-> None,
     api_version |-> api_version, params |-> params, json |-> None,
     account_id |-> None, data |-> None]

\* post passing its data as `data=` in place of `json=`.
PostCallFormData(endpoint, data, api_version, object_id) ==
    [method |-> "post", verb |-> "POST", endpoint |-> endpoint,
     object_id |-> object_id, api_version |-> api_version, params |-> None,
     json |-> None, account_id |-> None, data |-> data]

\* The call a post(endpoint, data, api_version, object_id) is.
PostCall(endpoint, data, api_version, object_id) ==
    [method |-> "post", verb |-> "POST", endpoint |-> endpoint,
     object_id |-> object_id, api_version |-> api_version, params |-> None,
     json |-> data, account_id |-> None, data |-> data]

\* The call a put(endpoint, data, api_version, object_id) is.
PutCall(endpoint, data, api_version, object_id) ==
    [method |-> "put", verb |-> "PUT", endpoint |-> endpoint,
     object_id |-> object_id, api_version |-> api_version, params |-> None,
     json |-> data, account_id |-> None, data |-> data]

Get(t) ==
    \E p \in ParamValues :
        Begin(t, GetCall(<<"account">>, p, "v1"))

Post(t) ==
    Begin(t, PostCall(<<"order">>, Some({<<"activities", "a1">>}), "v1", None))

Put(t) ==
    Begin(t, PutCall(<<"order">>, Some({<<"activities", "a1">>}), "v1", Some("o1")))

\* orders naming the query parameter `account`.
OrdersParamsMisnamed(account_id) ==
    IF Truthy(account_id) THEN Some({<<"account", account_id[1]>>}) ELSE None

\* `params = {"accounts": account_id} if account_id else None`
OrdersParams(account_id) ==
    IF Truthy(account_id) THEN Some({<<"accounts", account_id[1]>>}) ELSE None

\* self.get("order", params=params)
OrdersCall(account_id) ==
    [GetCall(<<"order">>, OrdersParams(account_id), "v1")
        EXCEPT !.method = "orders", !.account_id = account_id]

\* self.post("import", data)
ImportCall(data) ==
    [PostCall(<<"import">>, Some(data), "v1", None)
        EXCEPT !.method = "import_transactions"]

Orders(t) ==
    \E a \in AccountIds : Begin(t, OrdersCall(a))

Performance(t) ==
    \E r \in DateRanges :
        Begin(t, [GetCall(<<"portfolio", "performance">>, Some({<<"range", r>>}), "v2")
                    EXCEPT !.method = "performance"])

Holdings(t) ==
    \E r \in DateRanges :
        Begin(t, [GetCall(<<"portfolio", "holdings">>, Some({<<"range", r>>}), "v1")
                    EXCEPT !.method = "holdings"])

Position(t) ==
    Begin(t, [GetCall(<<"portfolio", "position", "YAHOO", "MSFT">>, None, "v1")
                EXCEPT !.method = "position"])

ImportTransactions(t) ==
    \E d \in ImportData : Begin(t, ImportCall(d))

Details(t) ==
    Begin(t, [GetCall(<<"portfolio", "details">>, None, "v1")
                EXCEPT !.method = "details"])

Investments(t) ==
    \E g \in GroupBys, r \in DateRanges :
        Begin(t, [GetCall(<<"portfolio", "investments">>,
                          Some({<<"range", r>>, <<"groupBy", g>>}), "v1")
                    EXCEPT !.method = "investments"])

Dividends(t) ==
    \E g \in GroupBys, r \in DateRanges :
        Begin(t, [GetCall(<<"portfolio", "dividends">>,
                          Some({<<"range", r>>, <<"groupBy", g>>}), "v1")
                    EXCEPT !.method = "dividends"])

Accounts(t) ==
    Begin(t, [GetCall(<<"account">>, None, "v1") EXCEPT !.method = "accounts"])

MarketDataAdmin(t) ==
    Begin(t, [GetCall(<<"admin", "market-data">>, None, "v1")
                EXCEPT !.method = "market_data_admin"])

MarketData(t) ==
    Begin(t, [GetCall(<<"admin", "market-data", "YAHOO", "MSFT">>, None, "v1")
                EXCEPT !.method = "market_data"])

-----------------------------------------------------------------------------
(* _refresh_jwt_token *)

\* `self._jwt_token is not None`
CheckToken(t) ==
    /\ t \in threads
    /\ pc[t] = "check_token"
    /\ pc' = [pc EXCEPT ![t] = IF HasToken(jwt_token) THEN "check_expiry" ELSE "exchange"]
    /\ UNCHANGED <<now, jwt_token, jwt_token_expiry, threads, call, sent, resp, logged,
                   issued, outcome, start>>

\* `self._jwt_token_expiry < datetime.now()`: comparing None with a datetime
\* raises TypeError; otherwise the method returns early when the test is true.
CheckExpiry(t) ==
    /\ t \in threads
    /\ pc[t] = "check_expiry"
    /\ IF jwt_token_expiry = None
       THEN /\ pc' = [pc EXCEPT ![t] = "done"]
            /\ outcome' = [outcome EXCEPT ![t] =
                              [kind |-> "raised", value |-> None, exc |-> "TypeError"]]
       ELSE /\ pc' = [pc EXCEPT ![t] =
                         IF ExpiryCheck(jwt_token_expiry[1], now)
                         THEN "dispatch" ELSE "exchange"]
            /\ UNCHANGED outcome
    /\ UNCHANGED <<now, jwt_token, jwt_token_expiry, threads, call, sent, resp, logged,
                   issued, start>>

\* The exchange with a failed response swallowed: the call goes on to its
\* resource request.
AuthExchangeSwallowing(t) ==
    /\ t \in threads
    /\ pc[t] = "exchange"
    /\ \E r \in AuthResponses :
        LET p == ProcessResponse(r) IN
        /\ sent' = [sent EXCEPT ![t] = Append(@, AuthRequest)]
        /\ resp' = [resp EXCEPT ![t] = r]
        /\ logged' = [logged EXCEPT ![t] = @ \o p.log]
        /\ IF p.raised
           THEN /\ pc' = [pc EXCEPT ![t] = "dispatch"]
                /\ UNCHANGED <<jwt_token, issued>>
           ELSE /\ pc' = [pc EXCEPT ![t] = "set_expiry"]
                /\ jwt_token' = Some(DictGet(p.value, "authToken"))
                /\ issued' = [issued EXCEPT ![t] = Some(DictGet(p.value, "authToken"))]
    /\ UNCHANGED <<now, jwt_token_expiry, threads, call, outcome, start>>

\* The exchange dropping the cached token when the response is a failure.
AuthExchangeClearing(t) ==
    /\ t \in threads
    /\ pc[t] = "exchange"
    /\ \E r \in AuthResponses :
        LET p == ProcessResponse(r) IN
        /\ sent' = [sent EXCEPT ![t] = Append(@, AuthRequest)]
        /\ resp' = [resp EXCEPT ![t] = r]
        /\ logged' = [logged EXCEPT ![t] = @ \o p.log]
        /\ IF p.raised
           THEN /\ pc' = [pc EXCEPT ![t] = "raising"]
                /\ jwt_token' = None
                /\ UNCHANGED issued
           ELSE /\ pc' = [pc EXCEPT ![t] = "set_expiry"]
                /\ jwt_token' = Some(DictGet(p.value, "authToken"))
                /\ issued' = [issued EXCEPT ![t] = Some(DictGet(p.value, "authToken"))]
    /\ UNCHANGED <<now, jwt_token_expiry, threads, call, outcome, start>>

\* The exchange request, its response processed, and the authToken stored.
AuthExchange(t) ==
    /\ t \in threads
    /\ pc[t] = "exchange"
    /\ \E r \in AuthResponses :
        LET p == ProcessResponse(r) IN
        /\ sent' = [sent EXCEPT ![t] = Append(@, AuthRequest)]
        /\ resp' = [resp EXCEPT ![t] = r]
        /\ logged' = [logged EXCEPT ![t] = @ \o p.log]
        /\ IF p.raised
           THEN /\ pc' = [pc EXCEPT ![t] = "raising"]
                /\ UNCHANGED <<jwt_token, issued>>
           ELSE /\ pc' = [pc EXCEPT ![t] = "set_expiry"]
                /\ jwt_token' = Some(DictGet(p.value, "authToken"))
                /\ issued' = [issued EXCEPT ![t] = Some(DictGet(p.value, "authToken"))]
    /\ UNCHANGED <<now, jwt_token_expiry, threads, call, outcome, start>>

\* The expiry set to the time of issuance, the lifetime left out.
NewExpiryNoLifetime(clock) == clock

\* `self._jwt_token_expiry = datetime.now() + timedelta(days=30)`
NewExpiry(clock) == clock + TokenLifetimeDays

SetExpiry(t) ==
    /\ t \in threads
    /\ pc[t] = "set_expiry"
    /\ jwt_token_expiry' = Some(NewExpiry(now))
    /\ pc' = [pc EXCEPT ![t] = "dispatch"]
    /\ UNCHANGED <<now, jwt_token, threads, call, sent, resp, logged, issued, outcome,
                   start>>

-----------------------------------------------------------------------------
(* The resource request of get/post/put *)

Dispatch(t) ==
    /\ t \in threads
    /\ pc[t] = "dispatch"
    /\ \E r \in ResourceResponses :
        LET p == ProcessResponse(r) IN
        /\ sent' = [sent EXCEPT ![t] = Append(@, ResourceRequest(call[t], jwt_token))]
        /\ resp' = [resp EXCEPT ![t] = r]
        /\ logged' = [logged EXCEPT ![t] = @ \o p.log]
        /\ IF p.raised
           THEN /\ pc' = [pc EXCEPT ![t] = "raising"]
                /\ UNCHANGED outcome
           ELSE /\ pc' = [pc EXCEPT ![t] = "done"]
                /\ outcome' = [outcome EXCEPT ![t] =
                                  [kind |-> "returned",
                                   value |-> ReturnValue(call[t].method, p.value),
                                   exc |-> ""]]
    /\ UNCHANGED <<now, jwt_token, jwt_token_expiry, threads, call, issued, start>>

\* `raise http_err`, after the body was logged: the error leaves the call.
Raise(t) ==
    /\ t \in threads
    /\ pc[t] = "raising"
    /\ pc' = [pc EXCEPT ![t] = "done"]
    /\ outcome' = [outcome EXCEPT ![t] =
                      [kind |-> "raised", value |-> None, exc |-> "HTTPError"]]
    /\ UNCHANGED <<now, jwt_token, jwt_token_expiry, threads, call, sent, resp, logged,
                   issued, start>>

\* The caller takes the result; the thread is free for its next call.
Return(t) ==
    /\ t \in threads
    /\ pc[t] = "done"
    /\ pc' = [pc EXCEPT ![t] = "idle"]
    /\ call' = [call EXCEPT ![t] = NoCall]
    /\ sent' = [sent EXCEPT ![t] = <<>>]
    /\ resp' = [resp EXCEPT ![t] = NoResponse]
    /\ logged' = [logged EXCEPT ![t] = <<>>]
    /\ issued' = [issued EXCEPT ![t] = None]
    /\ outcome' = [outcome EXCEPT ![t] = NoOutcome]
    /\ start' = [start EXCEPT ![t] = NoStart]
    /\ UNCHANGED <<now, jwt_token, jwt_token_expiry, threads>>

\* Time passes between calls; a call reads one value of the clock.
Tick ==
    /\ \A t \in threads : pc[t] = "idle"
    /\ now + TickDays <= MaxTime
    /\ now' = now + TickDays
    /\ UNCHANGED <<jwt_token, jwt_token_expiry, threads, pc, call, sent, resp, logged,
                   issued, outcome, start>>

-----------------------------------------------------------------------------

Next ==
    \/ \E t \in AllThreads : Get(t)
    \/ \E t \in AllThreads : Post(t)
    \/ \E t \in AllThreads : Put(t)
    \/ \E t \in AllThreads : Orders(t)
    \/ \E t \in AllThreads : Performance(t)
    \/ \E t \in AllThreads : Holdings(t)
    \/ \E t \in AllThreads : Position(t)
    \/ \E t \in AllThreads : ImportTransactions(t)
    \/ \E t \in AllThreads : Details(t)
    \/ \E t \in AllThreads : Investments(t)
    \/ \E t \in AllThreads : Dividends(t)
    \/ \E t \in AllThreads : Accounts(t)
    \/ \E t \in AllThreads : MarketDataAdmin(t)
    \/ \E t \in AllThreads : MarketData(t)
    \/ \E t \in AllThreads : CheckToken(t)
    \/ \E t \in AllThreads : CheckExpiry(t)
    \/ \E t \in AllThreads : AuthExchange(t)
    \/ \E t \in AllThreads : SetExpiry(t)
    \/ \E t \in AllThreads : Dispatch(t)
    \/ \E t \in AllThreads : Raise(t)
    \/ \E t \in AllThreads : Return(t)
    \/ Tick

\* One thread uses the client: the calls follow one another.
Spec == Init /\ [][Next]_vars

\* Two threads call get/post/put on the one client instance.
NextMT ==
    \/ \E t \in AllThreads : Get(t)
    \/ \E t \in AllThreads : Post(t)
    \/ \E t \in AllThreads : Put(t)
    \/ \E t \in AllThreads : CheckToken(t)
    \/ \E t \in AllThreads : CheckExpiry(t)
    \/ \E t \in AllThreads : AuthExchange(t)
    \/ \E t \in AllThreads : SetExpiry(t)
    \/ \E t \in AllThreads : Dispatch(t)
    \/ \E t \in AllThreads : Raise(t)
    \/ \E t \in AllThreads : Return(t)
    \/ Tick

SpecMT == InitMT /\ [][NextMT]_vars

-----------------------------------------------------------------------------
(* Properties *)

ResourceIndexes(t) == {i \in DOMAIN sent[t] : IsResource(sent[t][i])}
AuthIndexes(t) == {i \in DOMAIN sent[t] : IsAuth(sent[t][i])}
PastRefresh(t) == pc[t] = "dispatch" \/ ResourceIndexes(t) # {}

\* C1: a call that finds a cached credential whose expiry is in the future
\* issues no credential exchange, leaves the cached token as it was and
\* dispatches its resource request with that token.
C1_ValidCredentialReused ==
    \A t \in threads :
        start[t].cred = "valid" =>
            /\ AuthIndexes(t) = {}
            /\ jwt_token = start[t].token
            /\ \A i \in ResourceIndexes(t) : sent[t][i].auth = start[t].token

\* C2: a call that finds a cached credential whose expiry is in the past
\* issues exactly one credential exchange, and the cached token and expiry are
\* the newly obtained ones before the resource request is dispatched.
C2_ExpiredCredentialRenewed ==
    \A t \in threads :
        (start[t].cred = "expired" /\ PastRefresh(t)) =>
            /\ Cardinality(AuthIndexes(t)) = 1
            /\ IsAuth(sent[t][1])
            /\ issued[t] # None
            /\ jwt_token = issued[t]
            /\ jwt_token_expiry = Some(now + 30)

\* C3: every resource request is dispatched with a bearer token that is
\* present and whose cached expiry is in the future at that instant.
C3_DispatchedCredentialValid ==
    \A t \in threads :
        \A i \in ResourceIndexes(t) :
            /\ sent[t][i].auth # None
            /\ jwt_token_expiry # None
            /\ jwt_token_expiry[1] > now

\* C4: a call that finds no cached credential issues exactly one credential
\* exchange, a POST to the anonymous-auth endpoint carrying the static access
\* token, and issues it before its resource request.
C4_FirstCallExchangesOnce ==
    \A t \in threads :
        start[t].cred = "absent" =>
            /\ pc[t] \in {"set_expiry", "dispatch", "raising", "done"} =>
                /\ Len(sent[t]) >= 1
                /\ sent[t][1].verb = "POST"
                /\ sent[t][1].url = <<Host, "api", "v1", "auth", "anonymous">>
                /\ sent[t][1].data = Some({<<"accessToken", AccessToken>>})
                /\ Cardinality(AuthIndexes(t)) = 1
            /\ \A i \in ResourceIndexes(t) : i = 2

C4_Witness ==
    \E t \in threads :
        /\ start[t].cred = "absent"
        /\ Len(sent[t]) = 2
        /\ IsAuth(sent[t][1])
        /\ IsResource(sent[t][2])

C6_ExchangeStoresTokenAndExpiry ==
    \A t \in threads :
        /\ (issued[t] # None /\ pc[t] = "set_expiry") => jwt_token = issued[t]
        /\ (issued[t] # None /\ pc[t] \in {"dispatch", "raising", "done"}) =>
            /\ jwt_token = issued[t]
            /\ jwt_token_expiry = Some(now + 30)
            /\ \A i \in ResourceIndexes(t) : sent[t][i].auth = issued[t]

C6_Witness ==
    \E t \in threads :
        /\ issued[t] = Some("jwt2")
        /\ resp[t].text = "{authToken:jwt2,ttl:1}"
        /\ pc[t] = "dispatch"
        /\ jwt_token = Some("jwt2")
        /\ jwt_token_expiry = Some(now + 30)
        /\ now > 0

\* C7, as stated: for every account id passed to orders the GET to the orders
\* endpoint has exactly the query parameters accounts=<that id>, and orders()
\* with no argument has no accounts parameter.
C7_OrdersParamsAsStated ==
    \A t \in threads :
        call[t].method = "orders" =>
            \A i \in ResourceIndexes(t) :
                /\ sent[t][i].verb = "GET"
                /\ sent[t][i].url = <<Host, "api", "v1", "order">>
                /\ sent[t][i].params =
                      IF call[t].account_id # None
                      THEN Some({<<"accounts", call[t].account_id[1]>>})
                      ELSE None

\* C7, amended: for every non-empty account id passed to orders the GET to the
\* orders endpoint has exactly the query parameters accounts=<that id>;
\* orders() with no argument, or with the empty string, has no query
\* parameters at all.
C7_OrdersParams ==
    \A t \in threads :
        call[t].method = "orders" =>
            \A i \in ResourceIndexes(t) :
                /\ sent[t][i].verb = "GET"
                /\ sent[t][i].url = <<Host, "api", "v1", "order">>
                /\ sent[t][i].params =
                      IF call[t].account_id \in {None, Some("")}
                      THEN None
                      ELSE Some({<<"accounts", call[t].account_id[1]>>})

C7_Witness ==
    \E t \in threads :
        /\ call[t].method = "orders"
        /\ call[t].account_id = Some("A1")
        /\ ResourceIndexes(t) # {}
        /\ sent[t][Len(sent[t])].params = Some({<<"accounts", "A1">>})

\* C8, as stated: every resource method returns to its caller the JSON value
\* the transport returned with a success status, unchanged.
C8_RoundTripAsStated ==
    \A t \in threads :
        outcome[t].kind = "returned" =>
            outcome[t].value = Some(JsonLoads(resp[t].text))

\* C8, amended: get, post, put and every resource method other than
\* import_transactions return to their caller the JSON value the transport
\* returned with a success status, unchanged.
C8_RoundTrip ==
    \A t \in threads :
        (outcome[t].kind = "returned" /\ call[t].method # "import_transactions") =>
            outcome[t].value = Some(JsonLoads(resp[t].text))

C8_Witness ==
    \E t \in threads :
        /\ call[t].method = "details"
        /\ outcome[t].kind = "returned"
        /\ resp[t].text = "{activities:a1}"
        /\ outcome[t].value = Some({<<"activities", "a1">>})

\* C9: import_transactions(data) issues one POST to the import endpoint whose
\* JSON body is data, never a second one, and on success returns None whatever
\* the response payload is.  (The POST is not issued when the credential
\* exchange of the call fails.)
C9_ImportPostsDataReturnsNothing ==
    \A t \in threads :
        call[t].method = "import_transactions" =>
            /\ call[t].data # None
            /\ call[t].data[1] \in ImportData
            /\ Cardinality(ResourceIndexes(t)) <= 1
            /\ \A i \in ResourceIndexes(t) :
                /\ sent[t][i].verb = "POST"
                /\ sent[t][i].url = <<Host, "api", "v1", "import">>
                /\ sent[t][i].json = call[t].data
                /\ sent[t][i].params = None
            /\ pc[t] = "done" =>
                \/ Cardinality(ResourceIndexes(t)) = 1
                \/ /\ outcome[t].kind = "raised"
                   /\ IsAuth(sent[t][Len(sent[t])])
            /\ outcome[t].kind = "returned" =>
                /\ outcome[t].value = None
                /\ Cardinality(ResourceIndexes(t)) = 1

C9_Witness ==
    \E t \in threads :
        /\ call[t].method = "import_transactions"
        /\ call[t].data = Some({<<"activities", "a1">>})
        /\ outcome[t].kind = "returned"
        /\ outcome[t].value = None
        /\ resp[t].text = "{activities:a1}"
        /\ sent[t][Len(sent[t])].json = Some({<<"activities", "a1">>})

\* C10, as stated: with two threads calling concurrently the race on the
\* refresh path causes no error of its own: no call ends in another error than
\* the HTTP error of a failed response, and every resource request carries a
\* non-absent bearer token.
C10_BenignRaceAsStated ==
    \A t \in threads :
        /\ outcome[t].exc \in {"", "HTTPError"}
        /\ (pc[t] = "done" /\ outcome[t].kind = "raised") =>
              resp[t].status \in ErrorStatuses
        /\ \A i \in ResourceIndexes(t) : sent[t][i].auth # None

\* C10, amended: with two threads calling concurrently the race on the refresh
\* path can also make a call raise TypeError: the call compares the absent
\* expiry with the clock when another thread has stored its new token and not
\* yet its expiry.  That is the only window: a call meets an absent expiry in
\* its comparison only while another thread is between the two stores.  A call
\* raising TypeError has issued no request; every other call completes its
\* refresh step or raises the HTTP error of a failed exchange, and every
\* resource request carries a non-absent bearer token.
C10_RaceEffects ==
    \A t \in threads :
        /\ outcome[t].exc \in {"", "HTTPError", "TypeError"}
        /\ (pc[t] = "check_expiry" /\ jwt_token_expiry = None) =>
              \E u \in threads \ {t} : pc[u] = "set_expiry"
        /\ outcome[t].exc = "TypeError" =>
              /\ sent[t] = <<>>
              /\ start[t].cred = "absent"
        /\ outcome[t].exc = "HTTPError" => resp[t].status \in ErrorStatuses
        /\ (pc[t] = "done" /\ outcome[t].kind = "returned") => ResourceIndexes(t) # {}
        /\ \A i \in ResourceIndexes(t) : sent[t][i].auth # None

C10_Witness ==
    \E t \in threads :
        /\ pc[t] = "done"
        /\ outcome[t].exc = "TypeError"
        /\ \E u \in threads \ {t} : pc[u] = "set_expiry" /\ issued[u] = jwt_token

\* The credential exchange of thread t's running call received a failure
\* status: the request went out and no authToken came of it.
ExchangeFailed(t) == AuthIndexes(t) # {} /\ issued[t] = None

\* C11: a call whose credential exchange receives a failure status raises at
\* once: it dispatches no resource request, repeats no request, and leaves the
\* cached bearer token and expiry exactly as the call found them.
C11_FailedExchangeIsFatal ==
    \A t \in threads :
        ExchangeFailed(t) =>
            /\ pc[t] \in {"raising", "done"}
            /\ resp[t].status \in ErrorStatuses
            /\ sent[t] = <<AuthRequest>>
            /\ ResourceIndexes(t) = {}
            /\ jwt_token = start[t].token
            /\ jwt_token_expiry = start[t].expiry
            /\ pc[t] = "done" =>
                /\ outcome[t].kind = "raised"
                /\ outcome[t].exc = "HTTPError"
                /\ outcome[t].value = None

C11_Witness ==
    \E t \in threads :
        /\ ExchangeFailed(t)
        /\ pc[t] = "done"
        /\ outcome[t].kind = "raised"
        /\ sent[t] = <<AuthRequest>>
        /\ start[t].token = Some("jwt1")
        /\ jwt_token = Some("jwt1")
        /\ jwt_token_expiry = start[t].expiry

\* No call is running: the client is between calls.
BetweenCalls == \A t \in threads : pc[t] \in {"idle", "done"}

\* C12: between the calls of one thread, after failed calls too, the cached
\* bearer token and the cached expiry are both absent or both present; both
\* are absent at construction, and once present neither becomes absent again.
C12_CredentialLifecycle ==
    /\ (jwt_token = None /\ jwt_token_expiry = None)
    /\ [](BetweenCalls => (jwt_token = None <=> jwt_token_expiry = None))
    /\ [][/\ jwt_token # None => jwt_token' # None
          /\ jwt_token_expiry # None => jwt_token_expiry' # None]_vars

C12_Witness ==
    /\ BetweenCalls
    /\ \E t \in threads :
        /\ pc[t] = "done"
        /\ outcome[t].kind = "raised"
        /\ ExchangeFailed(t)
    /\ jwt_token # None
    /\ jwt_token_expiry # None

====
